---- MODULE Spec2Model ----
(***************************************************************************)
(* A model of dgit's diff-files, show-ref, commit and tree writer.         *)
(*                                                                         *)
(* Four subsystems share this module.  Each has its own variables, its own *)
(* initial condition and its own specification; a specification leaves the *)
(* other subsystems' variables at their idle values.                       *)
(***************************************************************************)
EXTENDS Integers, Sequences, FiniteSets, TLC

VARIABLES
    index,      \* diff-files: the index, a sorted sequence of IndexEntry
    fsys,       \* diff-files: the working tree, path -> file state
    dfOut,      \* diff-files: the last call of DiffFiles and what it returned
    gitdir,     \* show-ref: the files under the git dir, name -> content
    srOut,      \* show-ref: the last call of ShowRef and what it returned
    store,      \* commit: the object store, a sequence; an object's ID is its position
    branch,     \* commit: content of refs/heads/master ("" when the file is absent)
    idxTree,    \* commit: the content of the index WriteTree would write
    clock,      \* commit: the wall clock, in seconds
    proc,       \* commit: each process's position in Commit and its locals
    hist,       \* commit: how many Commits have started and what the last one returned
    twOut       \* tree writer: the index given to it and the root trees written so far

dvars == <<index, fsys, dfOut>>
svars == <<gitdir, srOut>>
cvars == <<store, branch, idxTree, clock, proc, hist>>
tvars == <<twOut>>
vars == <<index, fsys, dfOut, gitdir, srOut, store, branch, idxTree, clock, proc, hist, twOut>>

Idle == [called |-> FALSE]

(***************************************************************************)
(* Sequences helpers.                                                      *)
(***************************************************************************)
Range(s) == {s[i] : i \in 1..Len(s)}

RECURSIVE Flatten(_)
Flatten(ss) == IF ss = <<>> THEN <<>> ELSE Head(ss) \o Flatten(Tail(ss))

\* The sequences over S of length at most n.
SeqsUpTo(S, n) == UNION {[1..k -> S] : k \in 0..n}

(***************************************************************************)
(* diff-files                                                              *)
(***************************************************************************)
Paths == <<"a", "b">>          \* the index paths, in byte order
Hashes == {"h1", "h2"}         \* blob hashes
ZeroSha == "0000"              \* the zero value of Sha1
ModeNone == "0"                \* the zero value of FileMode
ModeBlob == "100644"
ModeExec == "100755"
ModeSymlink == "120000"

PathRank(p) == CHOOSE i \in 1..Len(Paths) : Paths[i] = p

\* The size of a blob is a function of its content.
SizeOf(h) == IF h = "h1" THEN 4 ELSE 7

\* What the working tree holds at a path.  kind: "absent" (no such file), "patherr"
\* (FilePath fails), "lstaterr" (Lstat fails), "dir", "regular", "exec" (regular with
\* the owner-execute bit), "special" (neither regular nor a directory).  For the last
\* three: content is the blob hash of the file's bytes, statOk is whether CompareStat
\* finds the stat data equal to the index entry's, hashOk whether HashFile can read it.
NoFile(k) == [kind |-> k, content |-> "h1", statOk |-> FALSE, hashOk |-> FALSE]
FileStates ==
    {NoFile(k) : k \in {"absent", "patherr", "lstaterr", "dir"}}
    \cup [kind : {"regular", "exec", "special"}, content : Hashes,
          statOk : BOOLEAN, hashOk : BOOLEAN]

\* The entries the index may hold for path p; Fsize is the size of the blob hashed.
IndexEntries(p) ==
    {[PathName |-> p, Sha1 |-> h, Mode |-> m, Fsize |-> SizeOf(h)] :
        h \in Hashes, m \in {ModeBlob, ModeExec}}

\* A sorted index without duplicate paths: per path, no entry or one entry.
Indexes ==
    LET pick == [1..Len(Paths) -> {<<>>} \cup
                    {<<e>> : e \in UNION {IndexEntries(Paths[i]) : i \in 1..Len(Paths)}}]
        ok(f) == \A i \in 1..Len(Paths) : f[i] # <<>> => f[i][1].PathName = Paths[i]
    IN {Flatten(f) : f \in {g \in pick : ok(g)}}

TreeEntry(sha, mode) == [Sha1 |-> sha, FileMode |-> mode]

HashDiff(name, idx, fs, srcSize, dstSize) ==
    [Name |-> name, Index |-> idx, Working |-> fs, SrcSize |-> srcSize, DstSize |-> dstSize]

\* LsFiles with Cached, Deleted and Modified: the index entries, restricted to the
\* paths given when any are given.
LsFiles(idx, paths) ==
    SelectSeq(idx, LAMBDA e : paths = {} \/ e.PathName \in paths)

\* HashFile("blob", f): the file's hash, or an error.
HashFile(st) == IF st.hashOk THEN [err |-> FALSE, hash |-> st.content]
                ELSE [err |-> TRUE, hash |-> ZeroSha]

\* The mode DiffFiles classifies a file as.
FsMode(st) ==
    CASE st.kind = "special" -> ModeSymlink
      [] st.kind = "exec" -> ModeExec
      [] OTHER -> ModeBlob

\* The body of DiffFiles' loop for one index entry with the given file state: the
\* diffs it appends to val (none or one).  The claimed-AND variant follows.
DiffEntrySkipOnStat(idx, st) ==
    LET idxtree == TreeEntry(idx.Sha1, idx.Mode)
        empty == TreeEntry(ZeroSha, ModeNone)
        fs == TreeEntry(ZeroSha, FsMode(st))
        size == SizeOf(st.content)
        h == HashFile(st)
    IN  IF st.kind \in {"patherr", "absent", "lstaterr", "dir"}
        THEN <<HashDiff(idx.PathName, idxtree, empty, idx.Fsize, 0)>>
        ELSE IF st.statOk THEN <<>>
        ELSE IF h.err \/ h.hash # idx.Sha1
             THEN <<HashDiff(idx.PathName, idxtree, fs, idx.Fsize, size)>>
             ELSE <<>>

DiffEntryDropFailed(idx, st) ==
    LET idxtree == TreeEntry(idx.Sha1, idx.Mode)
        fs == TreeEntry(ZeroSha, FsMode(st))
        size == SizeOf(st.content)
        h == HashFile(st)
    IN  IF st.kind \in {"patherr", "absent"}
        THEN <<HashDiff(idx.PathName, idxtree, TreeEntry(ZeroSha, ModeNone), idx.Fsize, 0)>>
        ELSE IF st.kind = "lstaterr" THEN <<>>
        ELSE IF st.kind = "dir"
        THEN <<HashDiff(idx.PathName, idxtree, fs, idx.Fsize, size)>>
        ELSE IF ~st.statOk
        THEN <<HashDiff(idx.PathName, idxtree, fs, idx.Fsize, size)>>
        ELSE IF h.err \/ h.hash # idx.Sha1
             THEN <<HashDiff(idx.PathName, idxtree, fs, idx.Fsize, size)>>
             ELSE <<>>

DiffEntry(idx, st) ==
    LET idxtree == TreeEntry(idx.Sha1, idx.Mode)
        empty == TreeEntry(ZeroSha, ModeNone)
        fs == TreeEntry(ZeroSha, FsMode(st))
        size == SizeOf(st.content)
        h == HashFile(st)
    IN  IF st.kind \in {"patherr", "absent"}
        THEN <<HashDiff(idx.PathName, idxtree, empty, idx.Fsize, 0)>>
        ELSE IF st.kind = "lstaterr"
        THEN <<HashDiff(idx.PathName, idxtree, empty, idx.Fsize, 0)>>
        ELSE IF st.kind = "dir"
        THEN <<HashDiff(idx.PathName, idxtree, empty, idx.Fsize, 0)>>
        ELSE IF ~st.statOk
        THEN <<HashDiff(idx.PathName, idxtree, fs, idx.Fsize, size)>>
        ELSE IF h.err \/ h.hash # idx.Sha1
             THEN <<HashDiff(idx.PathName, idxtree, fs, idx.Fsize, size)>>
             ELSE <<>>

\* sort.Sort(ByName(val)): insertion into a sequence ordered by path.
RECURSIVE SortByName(_)
SortByName(val) ==
    IF val = <<>> THEN <<>>
    ELSE LET rest == SortByName(Tail(val))
             x == Head(val)
             before == SelectSeq(rest, LAMBDA d : PathRank(d.Name) < PathRank(x.Name))
             after == SelectSeq(rest, LAMBDA d : PathRank(d.Name) >= PathRank(x.Name))
         IN before \o <<x>> \o after

\* DiffFiles(c, opt, paths): lsFails is whether LsFiles returns an error.
DiffFilesResult(idx, fs, paths, lsFails) ==
    IF lsFails THEN [val |-> <<>>, err |-> TRUE]
    ELSE LET entries == LsFiles(idx, paths)
             val == Flatten([i \in 1..Len(entries) |->
                               DiffEntry(entries[i], fs[entries[i].PathName])])
         IN [val |-> SortByName(val), err |-> FALSE]

DiffFiles ==
    /\ ~dfOut.called
    /\ \E paths \in SUBSET Range(Paths), lsFails \in BOOLEAN :
          dfOut' = [called |-> TRUE, paths |-> paths, lsFails |-> lsFails,
                    ret |-> DiffFilesResult(index, fsys, paths, lsFails)]
    /\ UNCHANGED <<index, fsys, svars, cvars, tvars>>

(***************************************************************************)
(* show-ref                                                                *)
(*                                                                         *)
(* A string is the sequence of its characters, so that TrimPrefix and      *)
(* HasSuffix work on characters as the Go functions do.                    *)
(***************************************************************************)
Slash == <<"/">>
sRefs == <<"r", "e", "f", "s">>
sHeads == <<"h", "e", "a", "d", "s">>
sTags == <<"t", "a", "g", "s">>
sNotes == <<"n">>
sHEAD == <<"H", "E", "A", "D">>
sA == <<"a">>
sBA == <<"b", "a">>
sZZ == <<"z", "z">>
sPeel == <<"^", "{", "}">>

NameHeadsA == sRefs \o Slash \o sHeads \o Slash \o sA
NameHeadsBA == sRefs \o Slash \o sHeads \o Slash \o sBA
NameNotesA == sRefs \o Slash \o sNotes \o Slash \o sA
NameTagsA == sRefs \o Slash \o sTags \o Slash \o sA

HasPrefix(s, pre) == Len(s) >= Len(pre) /\ SubSeq(s, 1, Len(pre)) = pre
HasSuffix(s, suf) == Len(s) >= Len(suf) /\ SubSeq(s, Len(s) - Len(suf) + 1, Len(s)) = suf
TrimPrefix(s, pre) == IF HasPrefix(s, pre) THEN SubSeq(s, Len(pre) + 1, Len(s)) ELSE s

\* The objects of the store and their types: two commits, a tag of c1, a tree.
ObjType(sha) ==
    CASE sha \in {"c1", "c2"} -> "commit"
      [] sha = "t1" -> "tag"
      [] sha = "tr" -> "tree"
      [] OTHER -> ""
\* RevParse(name^0) of a tag: the commit it peels to.
Peeled(sha) == IF sha = "t1" THEN "c1" ELSE sha

\* File contents.  Direct: the text of a hash; Symbolic: "ref: " and a target name;
\* Junk: a text that is neither; Absent: no such file.
Absent == [kind |-> "absent", text |-> "", target |-> <<>>]
Direct(hex) == [kind |-> "direct", text |-> hex, target |-> <<>>]
Symbolic(name) == [kind |-> "symbolic", text |-> "ref: ", target |-> name]
Junk == [kind |-> "direct", text |-> "junk", target |-> <<>>]

\* The files a git dir may hold and what each may contain.
GitDirs ==
    [{sHEAD, NameHeadsA, NameHeadsBA, NameNotesA, NameTagsA} -> 
        {Absent, Junk, Direct("c1"), Direct("c2"), Direct("t1"), Direct("tr"),
         Symbolic(NameHeadsA)}]
ValidGitDir(gd) ==
    /\ gd[sHEAD] \in {Symbolic(NameHeadsA), Direct("c1"), Direct("tr"), Junk}
    /\ gd[NameHeadsA] \in {Absent, Direct("c1"), Junk}
    /\ gd[NameHeadsBA] \in {Absent, Direct("c2"), Symbolic(NameHeadsA)}
    /\ gd[NameNotesA] \in {Absent, Direct("c2")}
    /\ gd[NameTagsA] \in {Absent, Direct("t1")}

\* c.GitDir.File(name) as the operating system resolves it: the slashes between
\* the git dir and the name collapse.
RECURSIVE CleanName(_)
CleanName(name) == IF HasPrefix(name, Slash) THEN CleanName(Tail(name)) ELSE name

ReadFile(gd, name) ==
    LET n == CleanName(name) IN IF n \in DOMAIN gd THEN gd[n] ELSE Absent
Exists(gd, name) == ReadFile(gd, name).kind # "absent"

Sha1FromString(text) ==
    IF text \in {"c1", "c2", "t1", "tr"} THEN [err |-> "", sha |-> text]
    ELSE [err |-> "parse", sha |-> ZeroSha]

Ref(name, value) == [Name |-> name, Value |-> value]
NoRef == Ref(<<>>, ZeroSha)

\* Ref.Matches
MatchesPrefix(name, pattern) == name = pattern \/ HasPrefix(name, pattern)
Matches(name, pattern) == name = pattern \/ HasSuffix(name, Slash \o pattern)

\* RefSpec.Value followed by Sha1FromString: the hash a symbolic ref's target holds.
TargetSha1(gd, target) ==
    LET f == ReadFile(gd, target)
    IN IF f.kind = "absent" THEN [err |-> "read", sha |-> ZeroSha]
       ELSE Sha1FromString(f.text)

\* parseRef(c, filename)
ParseRefKeepSlash(gd, filename) ==
    LET data == ReadFile(gd, filename)
        got == IF data.kind = "symbolic" THEN TargetSha1(gd, data.target)
               ELSE Sha1FromString(data.text)
    IN  IF data.kind = "absent" THEN [err |-> "read", ref |-> NoRef]
        ELSE IF got.err # "" THEN [err |-> got.err, ref |-> NoRef]
        ELSE [err |-> "", ref |-> Ref(filename, got.sha)]

parseRef(gd, filename) ==
    LET refname == TrimPrefix(filename, Slash)
        data == ReadFile(gd, refname)
        got == IF data.kind = "symbolic" THEN TargetSha1(gd, data.target)
               ELSE Sha1FromString(data.text)
    IN  IF data.kind = "absent" THEN [err |-> "read", ref |-> NoRef]
        ELSE IF got.err # "" THEN [err |-> got.err, ref |-> NoRef]
        ELSE [err |-> "", ref |-> Ref(refname, got.sha)]

\* getDeref(c, opts, ref): the refs it adds after ref (none or the peeled tag).
getDeref(opts, ref) ==
    IF ~opts.Dereference THEN <<>>
    ELSE IF ObjType(ref.Value) = "tag" THEN <<Ref(ref.Name \o sPeel, Peeled(ref.Value))>>
    ELSE <<>>

\* Client.GetHeadCommit: the commit HEAD resolves to, or why it resolves to none.
GetHeadCommit(gd) ==
    LET head == ReadFile(gd, sHEAD)
        got == IF head.kind = "symbolic" THEN TargetSha1(gd, head.target)
               ELSE Sha1FromString(head.text)
    IN  IF head.kind = "absent" THEN [err |-> "read", id |-> ZeroSha]
        ELSE IF head.kind = "symbolic" /\ ~Exists(gd, head.target)
             THEN [err |-> "notfound", id |-> ZeroSha]
        ELSE IF got.err # "" THEN [err |-> got.err, id |-> ZeroSha]
        ELSE IF ObjType(got.sha) # "commit" THEN [err |-> "notacommit", id |-> ZeroSha]
        ELSE [err |-> "", id |-> got.sha]

\* The error of the first failed step, "" when none failed.
RECURSIVE FirstErr(_)
FirstErr(rs) ==
    IF rs = <<>> THEN "" ELSE IF Head(rs).err # "" THEN Head(rs).err ELSE FirstErr(Tail(rs))

\* One iteration of the verify loop.
VerifyOne(gd, opts, pattern) ==
    LET r == parseRef(gd, pattern)
    IN  IF ~Exists(gd, pattern) THEN [err |-> "fatal", vals |-> <<>>]
        ELSE IF r.err # "" THEN [err |-> r.err, vals |-> <<>>]
        ELSE [err |-> "", vals |-> <<r.ref>> \o getDeref(opts, r.ref)]

\* One iteration of an enumeration loop (the Walk callback, the heads loop, the
\* tags loop): the ref is parsed first, then appended when no pattern is given or
\* at its first matching pattern.
ListOne(gd, opts, patterns, refname) ==
    LET r == parseRef(gd, refname)
    IN  IF r.err # "" THEN [err |-> r.err, vals |-> <<>>]
        ELSE IF patterns = <<>> \/ \E i \in 1..Len(patterns) : Matches(r.ref.Name, patterns[i])
             THEN [err |-> "", vals |-> <<r.ref>> \o getDeref(opts, r.ref)]
             ELSE [err |-> "", vals |-> <<>>]

\* The files filepath.Walk and ioutil.ReadDir visit, in their (lexical) order.
RefsOrder == <<NameHeadsA, NameHeadsBA, NameNotesA, NameTagsA>>
HeadsOrder == <<sA, sBA>>
TagsOrder == <<sA>>
Present(gd, names, dir) == SelectSeq(names, LAMBDA n : Exists(gd, dir \o n))

\* The names the enumeration hands to parseRef.
Enumerated(gd, opts) ==
    IF ~opts.Heads /\ ~opts.Tags
    THEN [i \in 1..Len(Present(gd, RefsOrder, <<>>)) |-> Slash \o Present(gd, RefsOrder, <<>>)[i]]
    ELSE (IF opts.Heads
          THEN LET hs == Present(gd, HeadsOrder, sRefs \o Slash \o sHeads \o Slash)
               IN [i \in 1..Len(hs) |-> sRefs \o Slash \o sHeads \o Slash \o hs[i]]
          ELSE <<>>)
      \o (IF opts.Tags
          THEN LET ts == Present(gd, TagsOrder, sRefs \o Slash \o sTags \o Slash)
               IN [i \in 1..Len(ts) |-> sRefs \o Slash \o sTags \o Slash \o ts[i]]
          ELSE <<>>)

HeadRefs(gd, opts) ==
    IF opts.IncludeHead /\ GetHeadCommit(gd).err = ""
    THEN <<Ref(sHEAD, GetHeadCommit(gd).id)>> ELSE <<>>

\* ShowRef(c, opts, patterns): [vals, err]; vals is empty (nil) whenever err is set.
ShowRefResult(gd, opts, patterns) ==
    LET steps == IF opts.Verify
                 THEN [i \in 1..Len(patterns) |-> VerifyOne(gd, opts, patterns[i])]
                 ELSE LET names == Enumerated(gd, opts)
                      IN [i \in 1..Len(names) |-> ListOne(gd, opts, patterns, names[i])]
        err == FirstErr(steps)
        head == IF opts.Verify THEN <<>> ELSE HeadRefs(gd, opts)
    IN  IF err # "" THEN [vals |-> <<>>, err |-> err]
        ELSE [vals |-> head \o Flatten([i \in 1..Len(steps) |-> steps[i].vals]), err |-> ""]

Options == [IncludeHead : BOOLEAN, Heads : BOOLEAN, Tags : BOOLEAN,
            Dereference : BOOLEAN, Verify : BOOLEAN]

MaxPatterns == 2
Patterns == {sA, sHeads \o Slash \o sA, <<"s">> \o Slash \o sA, NameHeadsBA, NameTagsA,
             Slash \o NameHeadsA, sRefs \o Slash \o sHeads \o Slash \o sZZ}

ShowRef ==
    /\ ~srOut.called
    /\ \E opts \in Options, patterns \in SeqsUpTo(Patterns, MaxPatterns) :
          srOut' = [called |-> TRUE, opts |-> opts, patterns |-> patterns,
                    ret |-> ShowRefResult(gitdir, opts, patterns)]
    /\ UNCHANGED <<gitdir, dvars, cvars, tvars>>

(***************************************************************************)
(* commit                                                                  *)
(*                                                                         *)
(* HEAD is the symbolic ref to refs/heads/master; branch is that file.     *)
(* An object's ID is its position in the store, so equal contents have     *)
(* equal IDs, and its hex form is looked up in HexTable.                   *)
(***************************************************************************)
Procs == {"p1", "p2"}
MaxCommits == 3                \* Commits started in one behaviour
MaxClock == 1                  \* seconds the clock may advance
NoRefFile == "none"            \* the ref file does not exist

HexTable == <<"01", "02", "03", "04", "05", "06", "07", "08", "09">>
Hex(id) == HexTable[id]
IsHex(str) == \E id \in 1..Len(HexTable) : HexTable[id] = str
FromHex(str) == CHOOSE id \in 1..Len(HexTable) : HexTable[id] = str

TreeObject(content) ==
    [kind |-> "tree", tree |-> content, parents |-> <<>>, msgs |-> <<>>, time |-> 0]
CommitObject(tree, parents, msgs, time) ==
    [kind |-> "commit", tree |-> tree, parents |-> parents, msgs |-> msgs, time |-> time]

\* Client.WriteObject: idempotent by content.
WriteObject(st, obj) == IF obj \in Range(st) THEN st ELSE Append(st, obj)
ObjectID(st, obj) == CHOOSE i \in 1..Len(st) : st[i] = obj

\* Client.GetHeadID: the hex ID HEAD resolves to, an error when it resolves to none.
GetHeadID(br) ==
    IF br # NoRefFile /\ IsHex(br) THEN [err |-> FALSE, id |-> br]
    ELSE [err |-> TRUE, id |-> ""]

\* commitTreeArgs after the HEAD lookup.
NoParentArgs(head) == <<>>
ParentArgs(head) == IF ~head.err THEN <<"-p", head.id>> ELSE <<>>

Flags == {"-m", "-F"}

\* args[idx:idx+2] for the element at position i (counted from 1): Go bounds a slice
\* expression by the capacity, so past the length it yields what the backing array
\* holds there (spare) and past the capacity it panics.
Slice2(args, spare, i) ==
    LET backing == args \o spare
    IN IF i + 1 <= Len(backing) THEN [panic |-> FALSE, s |-> SubSeq(backing, i, i + 1)]
       ELSE [panic |-> TRUE, s |-> <<>>]

\* The loop over args that gathers the message parameters, from position i on.
RECURSIVE Messages(_, _, _)
Messages(args, spare, i) ==
    IF i > Len(args) THEN [panic |-> FALSE, s |-> <<>>]
    ELSE LET rest == Messages(args, spare, i + 1)
             this == IF args[i] \in Flags THEN Slice2(args, spare, i)
                     ELSE [panic |-> FALSE, s |-> <<>>]
         IN IF this.panic \/ rest.panic THEN [panic |-> TRUE, s |-> <<>>]
            ELSE [panic |-> FALSE, s |-> this.s \o rest.s]

\* CommitTree's reading of its arguments: -p, -m and -F take the next argument, any
\* other argument is the tree.
RECURSIVE ParseCommitTree(_, _)
ParseCommitTree(a, acc) ==
    IF a = <<>> THEN acc
    ELSE IF Head(a) = "-p" /\ Len(a) >= 2
    THEN ParseCommitTree(SubSeq(a, 3, Len(a)), [acc EXCEPT !.parents = Append(@, a[2])])
    ELSE IF Head(a) \in Flags /\ Len(a) >= 2
    THEN ParseCommitTree(SubSeq(a, 3, Len(a)), [acc EXCEPT !.msgs = @ \o <<a[1], a[2]>>])
    ELSE ParseCommitTree(Tail(a), [acc EXCEPT !.tree = Head(a)])

\* The commit object CommitTree writes for these arguments at this time.
CommitTree(cta, now) ==
    LET got == ParseCommitTree(cta, [tree |-> "", parents |-> <<>>, msgs |-> <<>>])
    IN CommitObject(got.tree, got.parents, got.msgs, now)

\* The order of Commit's calls after the arguments are gathered.
StepAfterRefFirst(pc) ==
    CASE pc = "writetree" -> "updateref"
      [] pc = "updateref" -> "committree"
      [] pc = "committree" -> "return"
StepAfter(pc) ==
    CASE pc = "writetree" -> "committree"
      [] pc = "committree" -> "updateref"
      [] pc = "updateref" -> "return"

\* A process not running Commit.  outcome tells how its last Commit ended; head is
\* what GetHeadID gave it; prior and overlap are history: what the last Commit to
\* return before this one started had returned, and whether the other process was
\* between its read of HEAD and its UpdateRef, holding the same HEAD, when this one
\* read HEAD.
IdleProc ==
    [pc |-> "idle", args |-> <<>>, head |-> [err |-> TRUE, id |-> ""], cta |-> <<>>,
     treeSha1 |-> "", commitSha1 |-> "", ret |-> "", outcome |-> "none",
     prior |-> "", overlap |-> FALSE]

Running(l) == l.pc # "idle"
Other(p) == CHOOSE q \in Procs : q # p

\* What a process becomes when its step at l.pc is done.
Advance(l) ==
    IF StepAfter(l.pc) = "return"
    THEN [l EXCEPT !.pc = "idle", !.ret = l.commitSha1, !.outcome = "returned"]
    ELSE [l EXCEPT !.pc = StepAfter(l.pc)]
Returned(l, h) ==
    IF StepAfter(l.pc) = "return" THEN [h EXCEPT !.last = l.commitSha1] ELSE h

\* The argument lists Commit is called with, and what the backing array of the
\* argument slice may hold past its length.  The racing Commits take the lists
\* whose values are plain.
ArgLists == {<<"-m", "x">>, <<"-a", "-F", "f">>, <<"-m", "-m", "x">>, <<"-m", "-F">>}
Spares == {<<>>, <<"y">>}
RaceArgLists == {<<"-m", "x">>, <<"-a", "-F", "f">>}

\* Commit, lines 8-23: the HEAD lookup and the message loop.
CommitStart(p, args, spare) ==
    LET head == GetHeadID(branch)
        msgs == Messages(args, spare, 1)
        q == Other(p)
        raced == Running(proc[q]) /\ proc[q].head = head
        l == [IdleProc EXCEPT !.args = args, !.head = head, !.prior = hist.last,
                              !.overlap = raced]
    IN  /\ proc[p].pc = "idle"
        /\ hist.n < MaxCommits
        /\ hist' = [hist EXCEPT !.n = @ + 1]
        /\ proc' = [proc EXCEPT
                      ![p] = IF msgs.panic THEN [l EXCEPT !.outcome = "panic"]
                             ELSE [l EXCEPT !.pc = "writetree",
                                            !.cta = ParentArgs(head) \o msgs.s],
                      ![q] = IF raced THEN [@ EXCEPT !.overlap = TRUE] ELSE @]
        /\ UNCHANGED <<store, branch, idxTree, clock, dvars, svars, tvars>>

\* Commit started while no other Commit runs.
CommitStartAlone(p, args, spare) ==
    /\ \A q \in Procs : proc[q].pc = "idle"
    /\ CommitStart(p, args, spare)

\* Commit, lines 25-27: WriteTree and its result appended to the arguments.
CommitWriteTree(p) ==
    LET l == proc[p]
        obj == TreeObject(idxTree)
        st == WriteObject(store, obj)
        sha == Hex(ObjectID(st, obj))
    IN  /\ l.pc = "writetree"
        /\ store' = st
        /\ proc' = [proc EXCEPT ![p] = Advance([l EXCEPT !.treeSha1 = sha,
                                                        !.cta = Append(l.cta, sha)])]
        /\ hist' = Returned(l, hist)
        /\ UNCHANGED <<branch, idxTree, clock, dvars, svars, tvars>>

\* Commit, line 30: CommitTree.
CommitCommitTree(p) ==
    LET l == proc[p]
        obj == CommitTree(l.cta, clock)
        st == WriteObject(store, obj)
        sha == Hex(ObjectID(st, obj))
    IN  /\ l.pc = "committree"
        /\ store' = st
        /\ proc' = [proc EXCEPT ![p] = Advance([l EXCEPT !.commitSha1 = sha])]
        /\ hist' = Returned([l EXCEPT !.commitSha1 = sha], hist)
        /\ UNCHANGED <<branch, idxTree, clock, dvars, svars, tvars>>

\* Commit, lines 32-33: UpdateRef of HEAD, which writes the branch HEAD names.
CommitUpdateRef(p) ==
    LET l == proc[p]
    IN  /\ l.pc = "updateref"
        /\ branch' = l.commitSha1
        /\ proc' = [proc EXCEPT ![p] = Advance(l)]
        /\ hist' = Returned(l, hist)
        /\ UNCHANGED <<store, idxTree, clock, dvars, svars, tvars>>

\* WriteTree or CommitTree cannot write its object: the failure ends the Commit.
CommitWriteFails(p) ==
    /\ proc[p].pc \in {"writetree", "committree"}
    /\ proc' = [proc EXCEPT ![p] = [@ EXCEPT !.pc = "idle", !.outcome = "failed"]]
    /\ UNCHANGED <<store, branch, idxTree, clock, hist, dvars, svars, tvars>>

\* A second passes.
Tick ==
    /\ clock < MaxClock
    /\ clock' = clock + 1
    /\ UNCHANGED <<store, branch, idxTree, proc, hist, dvars, svars, tvars>>

(***************************************************************************)
(* tree writer                                                             *)
(***************************************************************************)
\* Names and paths are sequences of bytes; Ord is the value of a byte.
Chars == {".", "/", "a", "b"}
Ord == [c \in Chars |-> CASE c = "." -> 46 [] c = "/" -> 47 [] c = "a" -> 97 [] c = "b" -> 98]
ModeTree == "040000"

\* Byte-wise comparison of two byte strings.
LexLess(s, t) ==
    \E k \in 1..(Len(t)) :
        /\ k <= Len(s) + 1
        /\ \A i \in 1..(k - 1) : s[i] = t[i]
        /\ k <= Len(s) => Ord[s[k]] < Ord[t[k]]

\* The paths an index entry may have: a, a.b, a/a, a/b, ab, b/a.
TreePaths ==
    {<<"a">>, <<"a", ".", "b">>, <<"a", "/", "a">>, <<"a", "/", "b">>, <<"a", "b">>,
     <<"b", "/", "a">>}
MaxEntries == 3

\* The sequence that holds the members of S in the order of their paths.
SortedByPath(S) ==
    CHOOSE q \in [1..Cardinality(S) -> S] :
        \A i, j \in 1..Cardinality(S) : i < j => LexLess(q[i].path, q[j].path)

\* The valid sorted indexes: no path twice, entries in the order of their paths.
TreeIndexes ==
    UNION {{SortedByPath({[path |-> p, Mode |-> f[p].Mode, Sha1 |-> f[p].Sha1] : p \in ps}) :
              f \in [ps -> [Mode : {ModeBlob, ModeExec}, Sha1 : Hashes]]} :
           ps \in {qs \in SUBSET TreePaths : Cardinality(qs) <= MaxEntries}}

\* A path relative to the current prefix: the position of its first "/" (0 when it
\* has none), its first component and what follows that component.
FirstSlash(p) ==
    IF \E i \in 1..Len(p) : p[i] = "/"
    THEN CHOOSE i \in 1..Len(p) : p[i] = "/" /\ \A j \in 1..(i - 1) : p[j] # "/"
    ELSE 0
IsFinalName(p) == FirstSlash(p) = 0
Component(p) == IF IsFinalName(p) THEN p ELSE SubSeq(p, 1, FirstSlash(p) - 1)
Below(p) == SubSeq(p, FirstSlash(p) + 1, Len(p))

\* The entries below the subdirectory c, their paths relative to it.
Under(E, c) ==
    {[e EXCEPT !.path = Below(e.path)] :
        e \in {x \in E : ~IsFinalName(x.path) /\ Component(x.path) = c}}
SubDirs(E) == {Component(e.path) : e \in {x \in E : ~IsFinalName(x.path)}}

\* An entry of a tree.  A tree's ID is a function of its content alone, so the model
\* keeps the content in the place of the ID: sub is the tree a subtree entry names.
FileEntry(e) == [mode |-> e.Mode, name |-> e.path, sha |-> e.Sha1, sub |-> <<>>]
SubtreeEntry(c, tree) == [mode |-> ModeTree, name |-> c, sha |-> "", sub |-> tree]

\* The name an entry is compared by.
NamePlain(e) == e.name
NameForSort(e) == IF e.mode = ModeTree THEN e.name \o <<"/">> ELSE e.name

\* Every arrangement a sort may leave the entries in: any order in which no entry
\* stands before one that compares less than it.
Sorted(S) ==
    {q \in [1..Cardinality(S) -> S] :
        /\ \A x \in S : \E i \in 1..Cardinality(S) : q[i] = x
        /\ \A i, j \in 1..Cardinality(S) :
              i < j => ~LexLess(NameForSort(q[j]), NameForSort(q[i]))}

\* The trees the writer may produce for the entries E below a prefix.
RECURSIVE writeIndexEntries(_)
writeIndexEntries(E) ==
    LET files == {FileEntry(e) : e \in {x \in E : IsFinalName(x.path)}}
        subs == [c \in SubDirs(E) |-> writeIndexEntries(Under(E, c))]
        choices == {f \in [SubDirs(E) -> UNION {subs[c] : c \in SubDirs(E)}] :
                       \A c \in SubDirs(E) : f[c] \in subs[c]}
    IN UNION {Sorted(files \cup {SubtreeEntry(c, f[c]) : c \in SubDirs(E)}) : f \in choices}

MaxRuns == 2

\* The tree writer run on the index, from the empty prefix.
WriteTree ==
    /\ Len(twOut.trees) < MaxRuns
    /\ \E tree \in writeIndexEntries(Range(twOut.index)) :
          twOut' = [twOut EXCEPT !.trees = Append(@, tree)]
    /\ UNCHANGED <<dvars, svars, cvars>>

DiffIdle == index = <<>> /\ fsys = <<>> /\ dfOut = Idle
ShowRefIdle == gitdir = <<>> /\ srOut = Idle
CommitIdle ==
    store = <<>> /\ branch = "" /\ idxTree = "" /\ clock = 0 /\ proc = <<>> /\ hist = <<>>
TreeIdle == twOut = Idle

InitDiff ==
    /\ index \in Indexes
    /\ fsys \in [Range(Paths) -> FileStates]
    /\ dfOut = Idle
    /\ ShowRefIdle /\ CommitIdle /\ TreeIdle

NextDiff == DiffFiles

InitShowRef ==
    /\ gitdir \in {gd \in GitDirs : ValidGitDir(gd)}
    /\ srOut = Idle
    /\ DiffIdle /\ CommitIdle /\ TreeIdle

NextShowRef == ShowRef

InitCommit ==
    /\ store = <<>>
    /\ branch = NoRefFile
    /\ idxTree \in {"ta", "tb"}
    /\ clock = 0
    /\ proc = [p \in Procs |-> IdleProc]
    /\ hist = [n |-> 0, last |-> ""]
    /\ DiffIdle /\ ShowRefIdle /\ TreeIdle

CommitSteps(p) ==
    \/ CommitWriteTree(p)
    \/ CommitCommitTree(p)
    \/ CommitUpdateRef(p)
    \/ CommitWriteFails(p)

\* Commits one after another.
NextCommit ==
    \/ Tick
    \/ \E p \in Procs : 
          \/ \E args \in ArgLists, spare \in Spares : CommitStartAlone(p, args, spare)
          \/ CommitSteps(p)

\* Commits of two processes, interleaved at their calls.
NextRace ==
    \/ Tick
    \/ \E p \in Procs : 
          \/ \E args \in RaceArgLists : CommitStart(p, args, <<>>)
          \/ CommitSteps(p)

SpecCommit == InitCommit /\ [][NextCommit]_vars
SpecRace == InitCommit /\ [][NextRace]_vars

SpecShowRef == InitShowRef /\ [][NextShowRef]_vars

SpecDiff == InitDiff /\ [][NextDiff]_vars

InitTree ==
    /\ twOut \in {[index |-> ix, trees |-> <<>>] : ix \in TreeIndexes}
    /\ DiffIdle /\ ShowRefIdle /\ CommitIdle

NextTree == WriteTree

SpecTree == InitTree /\ [][NextTree]_vars

\* The index entries the last DiffFiles call examined.
Candidates == LsFiles(index, dfOut.paths)
IsFile(e) == fsys[e.PathName].kind \in {"regular", "exec", "special"}
DiffsFor(e) == SelectSeq(dfOut.ret.val, LAMBDA d : d.Name = e.PathName)
Rehashed(e) == HashFile(fsys[e.PathName])
DiffRan == dfOut.called /\ ~dfOut.lsFails

(* C1, as claimed: for a candidate entry that is a file on disk, a diff is emitted
   if and only if CompareStat reports a mismatch AND the rehash fails or differs
   from the stored sha1. *)
C1_AsClaimed ==
    DiffRan => \A i \in 1..Len(Candidates) :
        LET e == Candidates[i] IN
        IsFile(e) =>
            (DiffsFor(e) # <<>> <=>
                (~fsys[e.PathName].statOk /\ (Rehashed(e).err \/ Rehashed(e).hash # e.Sha1)))

(* C1, amended: for a candidate entry that is a file on disk, a diff is emitted if
   and only if CompareStat reports a mismatch OR the rehash fails or differs from the
   stored sha1; an entry is skipped only when its stat data agrees and its content
   hash equals the stored sha1. *)
C1_EmittedIffStatOrHashDiffers ==
    DiffRan => \A i \in 1..Len(Candidates) :
        LET e == Candidates[i] IN
        IsFile(e) =>
            (DiffsFor(e) # <<>> <=>
                (~fsys[e.PathName].statOk \/ Rehashed(e).err \/ Rehashed(e).hash # e.Sha1))

\* A file whose stat data disagrees but whose content hash equals the stored sha1
\* was examined and emitted, and one whose stat and hash both agree was skipped.
C1_Witness ==
    /\ DiffRan
    /\ Len(Candidates) = 2
    /\ LET e == Candidates[1] IN
         /\ IsFile(e) /\ ~fsys[e.PathName].statOk
         /\ ~Rehashed(e).err /\ Rehashed(e).hash = e.Sha1
         /\ DiffsFor(e) # <<>>
    /\ LET e == Candidates[2] IN
         /\ IsFile(e) /\ fsys[e.PathName].statOk
         /\ ~Rehashed(e).err /\ Rehashed(e).hash = e.Sha1
         /\ DiffsFor(e) = <<>>

(* C9: a candidate entry whose file is absent, unresolvable, fails lstat or is a
   directory yields exactly one diff, with the index side (sha1, mode), an empty
   filesystem side and filesystem size 0; such failures raise no error and do not
   stop later entries from being processed; DiffFiles fails, with no diffs, exactly
   when listing the index fails. *)
C9_FailedEntriesAreDeletions ==
    dfOut.called =>
        /\ dfOut.ret.err <=> dfOut.lsFails
        /\ dfOut.ret.err => dfOut.ret.val = <<>>
        /\ ~dfOut.lsFails => \A i \in 1..Len(Candidates) :
              LET e == Candidates[i] IN
              /\ ~IsFile(e) =>
                    DiffsFor(e) = <<[Name |-> e.PathName,
                                     Index |-> [Sha1 |-> e.Sha1, FileMode |-> e.Mode],
                                     Working |-> [Sha1 |-> ZeroSha, FileMode |-> ModeNone],
                                     SrcSize |-> e.Fsize, DstSize |-> 0]>>
              /\ (IsFile(e) /\ ~fsys[e.PathName].statOk) => Len(DiffsFor(e)) = 1

\* The first entry cannot be lstat'ed and the second, a changed file, is still
\* reported after it.
C9_Witness ==
    /\ DiffRan
    /\ Len(Candidates) = 2
    /\ fsys[Candidates[1].PathName].kind = "lstaterr"
    /\ IsFile(Candidates[2]) /\ ~fsys[Candidates[2].PathName].statOk
    /\ Len(dfOut.ret.val) = 2
    /\ dfOut.ret.val[1].DstSize = 0 /\ dfOut.ret.val[2].DstSize > 0

\* ---- show-ref claims

\* The hash the file called name resolves to ("" when it resolves to none).
ResolvesTo(name) ==
    LET f == ReadFile(gitdir, name)
        g == IF f.kind = "symbolic" THEN ReadFile(gitdir, f.target) ELSE f
    IN IF g.kind = "direct" /\ g.text \in {"c1", "c2", "t1", "tr"} THEN g.text ELSE ""

IsPeeled(r) == HasSuffix(r.Name, sPeel)
Unpeeled(vals) == SelectSeq(vals, LAMBDA r : ~IsPeeled(r))
Count(vals, name) == Cardinality({i \in 1..Len(vals) : vals[i].Name = name})
DropLeadingSlash(pat) == IF pat # <<>> /\ pat[1] = "/" THEN Tail(pat) ELSE pat

Verified == srOut.called /\ srOut.opts.Verify
Listed == srOut.called /\ ~srOut.opts.Verify

(* C2, as claimed: with verify, if every pattern names an existing ref file the
   result holds, for each pattern in pattern order, a Ref whose Name is exactly that
   pattern and whose Value is the hash it resolves to; if a pattern names no
   existing file, ShowRef returns an error and no refs. *)
C2_AsClaimed ==
    Verified =>
        LET ps == srOut.patterns IN
        /\ (\A i \in 1..Len(ps) : Exists(gitdir, ps[i]) /\ ResolvesTo(ps[i]) # "") =>
              /\ srOut.ret.err = ""
              /\ Unpeeled(srOut.ret.vals) = [i \in 1..Len(ps) |-> Ref(ps[i], ResolvesTo(ps[i]))]
        /\ (\E i \in 1..Len(ps) : ~Exists(gitdir, ps[i])) =>
              srOut.ret.err # "" /\ srOut.ret.vals = <<>>

(* C2, amended: with verify, if every pattern names an existing file that resolves
   to a hash, the result holds, for each pattern in pattern order, a Ref whose Name
   is that pattern without its leading "/" and whose Value is that hash; otherwise
   (a pattern names no existing file, or a file that does not resolve) ShowRef
   returns an error and no refs, the error being "fatal: not a valid ref" when the
   first such pattern names no file. *)
C2_VerifyAllOrNothing ==
    Verified =>
        LET ps == srOut.patterns
            good(i) == Exists(gitdir, ps[i]) /\ ResolvesTo(ps[i]) # ""
            bad == {i \in 1..Len(ps) : ~good(i)}
        IN IF bad = {}
           THEN /\ srOut.ret.err = ""
                /\ Unpeeled(srOut.ret.vals) =
                      [i \in 1..Len(ps) |-> Ref(DropLeadingSlash(ps[i]), ResolvesTo(ps[i]))]
           ELSE /\ srOut.ret.err # "" /\ srOut.ret.vals = <<>>
                /\ LET first == CHOOSE i \in bad : \A j \in bad : i <= j
                   IN srOut.ret.err = "fatal" <=> ~Exists(gitdir, ps[first])

\* Two refs were verified, the first given with a leading slash.
C2_Witness ==
    /\ Verified
    /\ srOut.patterns = <<Slash \o NameHeadsA, NameHeadsBA>>
    /\ srOut.ret.err = ""
    /\ Len(srOut.ret.vals) = 2
    /\ srOut.ret.vals[1] = Ref(NameHeadsA, "c1")
    /\ srOut.ret.vals[2].Name = NameHeadsBA

\* HEAD as the files say, independently of GetHeadCommit.
HeadDangling ==
    gitdir[sHEAD].kind = "symbolic" /\ ~Exists(gitdir, gitdir[sHEAD].target)
HeadIsCommit == ResolvesTo(sHEAD) \in {"c1", "c2"}
\* Some ref file the enumeration reads cannot be parsed.
EnumerationFails ==
    \E i \in 1..Len(Enumerated(gitdir, srOut.opts)) :
        parseRef(gitdir, Enumerated(gitdir, srOut.opts)[i]).err # ""

(* C3, as claimed: with include_head and without verify, a symbolic HEAD whose target
   does not exist is omitted without an error; a HEAD that resolves to a commit is
   the first element of the result; every other failure to read or resolve HEAD is
   returned as an error. *)
C3_AsClaimed ==
    (Listed /\ srOut.opts.IncludeHead) =>
        /\ HeadDangling =>
              /\ Count(srOut.ret.vals, sHEAD) = 0
              /\ srOut.ret.err # "" => EnumerationFails
        /\ (HeadIsCommit /\ srOut.ret.err = "") =>
              srOut.ret.vals # <<>> /\ srOut.ret.vals[1] = Ref(sHEAD, ResolvesTo(sHEAD))
        /\ (~HeadDangling /\ ~HeadIsCommit) => srOut.ret.err # ""

\* The parts of C3 the code does keep: the dangling HEAD and the resolving HEAD.
C3_DanglingAndResolving ==
    (Listed /\ srOut.opts.IncludeHead) =>
        /\ HeadDangling =>
              /\ Count(srOut.ret.vals, sHEAD) = 0
              /\ srOut.ret.err # "" => EnumerationFails
        /\ (HeadIsCommit /\ srOut.ret.err = "") =>
              srOut.ret.vals # <<>> /\ srOut.ret.vals[1] = Ref(sHEAD, ResolvesTo(sHEAD))

\* The ref files of the namespace the options select.
InNamespace(opts, name) ==
    IF ~opts.Heads /\ ~opts.Tags THEN HasPrefix(name, sRefs \o Slash)
    ELSE \/ opts.Heads /\ HasPrefix(name, sRefs \o Slash \o sHeads \o Slash)
         \/ opts.Tags /\ HasPrefix(name, sRefs \o Slash \o sTags \o Slash)
Selected == {n \in DOMAIN gitdir : InNamespace(srOut.opts, n) /\ Exists(gitdir, n)}

\* R matches P: R is P, or R is some text followed by "/" and P.
NameMatches(name, pat) ==
    name = pat \/ \E k \in 1..Len(name) : SubSeq(name, k, Len(name)) = Slash \o pat
Wanted(name) ==
    srOut.patterns = <<>>
    \/ \E i \in 1..Len(srOut.patterns) : NameMatches(name, srOut.patterns[i])

(* C4: without verify, in every result ShowRef returns, a ref of the selected
   namespace (refs/heads with heads, refs/tags with tags, all of refs/ with neither)
   appears exactly once if it equals a pattern or ends with "/" and the pattern, or
   if no pattern is given, and not at all otherwise. *)
C4_MatchingRefsOnce ==
    (Listed /\ srOut.ret.err = "") =>
        \A n \in Selected : Count(srOut.ret.vals, n) = IF Wanted(n) THEN 1 ELSE 0

\* refs/heads/a matched two patterns and appears once; refs/heads/ba, which ends
\* with "a" but not with "/a", was enumerated and left out.
C4_Witness ==
    /\ Listed /\ srOut.opts.Heads /\ ~srOut.opts.Tags /\ ~srOut.opts.IncludeHead
    /\ srOut.patterns = <<sA, sHeads \o Slash \o sA>>
    /\ Exists(gitdir, NameHeadsA) /\ Exists(gitdir, NameHeadsBA)
    /\ srOut.ret.err = ""
    /\ srOut.ret.vals = <<Ref(NameHeadsA, "c1")>>

\* ---- commit claims

IsStored(hex, kind) ==
    IsHex(hex) /\ FromHex(hex) <= Len(store) /\ store[FromHex(hex)].kind = kind
ParentsOf(hex) == store[FromHex(hex)].parents

\* The commits reachable from a commit through parents, itself included.
RECURSIVE Ancestors(_)
Ancestors(hex) ==
    IF ~IsStored(hex, "commit") THEN {}
    ELSE {hex} \cup UNION {Ancestors(ParentsOf(hex)[i]) : i \in 1..Len(ParentsOf(hex))}

(* C5: when Commits run one after another from a HEAD that names no branch yet,
   HEAD resolves to the ID the most recent Commit returned, the first commit has no
   parent, and every later commit has exactly one parent, the commit HEAD resolved
   to when that Commit started. *)
C5_HeadFollowsCommits ==
    /\ hist.last # "" => GetHeadID(branch) = [err |-> FALSE, id |-> hist.last]
    /\ \A p \in Procs : proc[p].outcome = "returned" =>
          /\ IsStored(proc[p].ret, "commit")
          /\ ParentsOf(proc[p].ret) = IF proc[p].prior = "" THEN <<>> ELSE <<proc[p].prior>>

\* A second commit has returned: HEAD names it and its parent is the first.
C5_Witness ==
    \E p \in Procs :
        /\ proc[p].outcome = "returned" /\ proc[p].pc = "idle"
        /\ proc[p].prior # "" /\ proc[p].ret # proc[p].prior
        /\ branch = proc[p].ret
        /\ ParentsOf(proc[p].ret) = <<proc[p].prior>>
        /\ ParentsOf(proc[p].prior) = <<>>

(* C6: at every point of every Commit, interleaved or not, failed or not, the branch
   HEAD names holds the ID of a commit object that is in the store, with its tree:
   the ref is written only after both objects are. *)
C6_RefNamesStoredCommit ==
    branch # NoRefFile =>
        /\ IsStored(branch, "commit")
        /\ IsStored(store[FromHex(branch)].tree, "tree")

\* A Commit failed at a write after an earlier Commit had set the ref, while the
\* other process is about to write its own commit object.
C6_Witness ==
    \E p \in Procs :
        /\ proc[p].outcome = "failed" /\ proc[p].treeSha1 # ""
        /\ proc[Other(p)].pc = "committree"
        /\ branch # NoRefFile /\ branch = hist.last

\* Both processes read the same HEAD before either updated the ref, and both have
\* returned.
BothReturned ==
    \A p \in Procs : proc[p].pc = "idle" /\ proc[p].outcome = "returned" /\ proc[p].overlap
HeadRead(p) == IF proc[p].head.err THEN <<>> ELSE <<proc[p].head.id>>
Loser == IF branch = proc["p1"].ret THEN proc["p2"].ret ELSE proc["p1"].ret

(* C7, as claimed: after two Commits that both read HEAD before either updated the
   ref, HEAD holds one of the two new commit IDs, that commit's parent is the HEAD
   both read, and the other commit is in the store but not reachable from HEAD. *)
C7_AsClaimed ==
    BothReturned =>
        /\ branch \in {proc["p1"].ret, proc["p2"].ret}
        /\ ParentsOf(branch) = HeadRead("p1") /\ HeadRead("p1") = HeadRead("p2")
        /\ IsStored(Loser, "commit")
        /\ Loser \notin Ancestors(branch)

(* C7, amended: after two Commits that both read HEAD before either updated the
   ref, HEAD holds one of the two new commit IDs, that commit's parent is the HEAD
   both read, and the other commit is in the store; it is not reachable from HEAD
   unless the two commits are the same object, which they are exactly when they were
   written with the same tree, messages and timestamp. *)
C7_OneWinsOtherOrphanUnlessSame ==
    BothReturned =>
        /\ branch \in {proc["p1"].ret, proc["p2"].ret}
        /\ ParentsOf(branch) = HeadRead("p1") /\ HeadRead("p1") = HeadRead("p2")
        /\ IsStored(Loser, "commit")
        /\ proc["p1"].ret # proc["p2"].ret => Loser \notin Ancestors(branch)
        /\ proc["p1"].ret = proc["p2"].ret <=>
              /\ store[FromHex(proc["p1"].ret)].msgs = store[FromHex(proc["p2"].ret)].msgs
              /\ store[FromHex(proc["p1"].ret)].time = store[FromHex(proc["p2"].ret)].time
              /\ store[FromHex(proc["p1"].ret)].tree = store[FromHex(proc["p2"].ret)].tree

\* Two Commits raced on top of an earlier commit; p2 won and p1's commit is an orphan.
C7_Witness ==
    /\ BothReturned
    /\ HeadRead("p1") # <<>>
    /\ proc["p1"].ret # proc["p2"].ret
    /\ branch = proc["p2"].ret
    /\ proc["p1"].ret \notin Ancestors(branch)

\* The (flag, value) pairs of an argument list, read from the left: a -m or -F takes
\* the argument after it, whatever it is.
RECURSIVE Pairs(_)
Pairs(a) ==
    IF a = <<>> THEN [ok |-> TRUE, s |-> <<>>]
    ELSE IF Head(a) \notin Flags THEN Pairs(Tail(a))
    ELSE IF Len(a) < 2 THEN [ok |-> FALSE, s |-> <<>>]
    ELSE LET rest == Pairs(SubSeq(a, 3, Len(a)))
         IN [ok |-> rest.ok, s |-> <<a[1], a[2]>> \o rest.s]

(* C10, as claimed: when every -m or -F of the argument list is followed by a value,
   Commit hands commit-tree the optional "-p <parent>", then exactly the (flag, value)
   pairs in their order, then the tree hash. *)
C10_AsClaimed ==
    \A p \in Procs : (Pairs(proc[p].args).ok /\ proc[p].pc = "committree") =>
              proc[p].cta = (IF proc[p].head.err THEN <<>> ELSE <<"-p", proc[p].head.id>>)
                            \o Pairs(proc[p].args).s \o <<proc[p].treeSha1>>

\* No value of the argument list is itself -m or -F.
PlainValues(a) == \A i \in 1..Len(a) : a[i] \in Flags => i < Len(a) /\ a[i + 1] \notin Flags

\* The part of C10 the code keeps: the same, for argument lists whose values are not
\* themselves -m or -F.
C10_PlainValuesForwarded ==
    \A p \in Procs : PlainValues(proc[p].args) =>
        /\ proc[p].outcome # "panic"
        /\ proc[p].pc = "committree" =>
              proc[p].cta = (IF proc[p].head.err THEN <<>> ELSE <<"-p", proc[p].head.id>>)
                            \o Pairs(proc[p].args).s \o <<proc[p].treeSha1>>

\* ---- tree writer claims

\* The name an entry sorts by when every subtree name has a "/" appended.
SlashName(e) == IF e.mode = ModeTree THEN Append(e.name, "/") ELSE e.name
FinalEntries(E) == {e \in E : IsFinalName(e.path)}
InOrder(tree) ==
    \A i, j \in 1..Len(tree) : i < j => LexLess(SlashName(tree[i]), SlashName(tree[j]))

\* tree is the tree of the entries E as claimed: one entry per first component.
RECURSIVE OnePerComponent(_, _)
OnePerComponent(tree, E) ==
    /\ Len(tree) = Cardinality({Component(e.path) : e \in E})
    /\ \A e \in FinalEntries(E) :
          \E i \in 1..Len(tree) : tree[i] = FileEntry(e)
    /\ \A c \in SubDirs(E) :
          \E i \in 1..Len(tree) :
              /\ tree[i].mode = ModeTree /\ tree[i].name = c
              /\ OnePerComponent(tree[i].sub, Under(E, c))
    /\ InOrder(tree)

\* tree is the tree of the entries E: one file entry per final name and one subtree
\* entry per nonfinal component.
RECURSIVE OnePerNameAndKind(_, _)
OnePerNameAndKind(tree, E) ==
    /\ Len(tree) = Cardinality(FinalEntries(E)) + Cardinality(SubDirs(E))
    /\ \A e \in FinalEntries(E) :
          \E i \in 1..Len(tree) : tree[i] = FileEntry(e)
    /\ \A c \in SubDirs(E) :
          \E i \in 1..Len(tree) :
              /\ tree[i].mode = ModeTree /\ tree[i].name = c
              /\ OnePerNameAndKind(tree[i].sub, Under(E, c))
    /\ InOrder(tree)

(* C8, as claimed: every tree written for a sorted index without duplicate paths has
   exactly one entry per distinct first path component below its prefix, a file entry
   with the index mode and sha for a final name and a subtree entry with the written
   subtree for a nonfinal component, in the order of the names with "/" appended to
   subtree names; and every run writes the same root tree. *)
C8_AsClaimed ==
    /\ \A r \in 1..Len(twOut.trees) : OnePerComponent(twOut.trees[r], Range(twOut.index))
    /\ \A r, q \in 1..Len(twOut.trees) : twOut.trees[r] = twOut.trees[q]

(* C8, amended: every tree written for a sorted index without duplicate paths has
   exactly one file entry, with the index mode and sha, per first component that is a
   final name and exactly one subtree entry, with the written subtree, per first
   component that is nonfinal (a component that is both has the two entries, the file
   first), in the strict order of the names with "/" appended to subtree names; and
   every run writes the same root tree. *)
C8_OneEntryPerNameAndKind ==
    /\ \A r \in 1..Len(twOut.trees) : OnePerNameAndKind(twOut.trees[r], Range(twOut.index))
    /\ \A r, q \in 1..Len(twOut.trees) : twOut.trees[r] = twOut.trees[q]

\* Two runs have written the tree of a file ab between the subtrees a and b.
C8_Witness ==
    /\ Len(twOut.trees) = MaxRuns
    /\ Len(twOut.trees[1]) = 3
    /\ twOut.trees[1][1].name = <<"a">> /\ twOut.trees[1][1].mode = ModeTree
    /\ twOut.trees[1][2].name = <<"a", "b">> /\ twOut.trees[1][2].mode # ModeTree
    /\ twOut.trees[1][3].name = <<"b">> /\ twOut.trees[1][3].mode = ModeTree

====
